---- MODULE Spec2Model ----
(***************************************************************************)
(* The cacheguard Redis module (enhanced variant, version 1.0.1):          *)
(* cache.guard.get / cache.guard.set / cache.guard.config over a           *)
(* key/value store with per-key TTL.  Every command runs atomically        *)
(* (Redis executes module commands one at a time); time passes between     *)
(* commands and the store drops a record once its TTL has run out.         *)
(***************************************************************************)
EXTENDS Integers, FiniteSets, Sequences, TLC

VARIABLES
    store,          \* the key/value store: record name -> [val, ttl] or NoRec
    module_config,  \* the module's configuration
    callers,        \* what each client is doing
    last,           \* the last command: its arguments and its reply
    written,        \* history: per key, the last value a Set wrote
    ticks           \* number of time steps taken

vars == <<store, module_config, callers, last, written, ticks>>

----------------------------------------------------------------------------
(* Program constants                                                       *)

MAX_KEY_LENGTH == 512
MIN_GRACE_PERIOD_MS == 100
MAX_GRACE_PERIOD_MS == 24 * 60 * 60 * 1000
MIN_EXPIRE_MS == 1000
MAX_EXPIRE_MS == 7 * 24 * 60 * 60 * 1000
MAX_VALUE_LENGTH == 10 * 1024 * 1024
MIN_MAX_LOCK_DURATION == 1000
MAX_MAX_LOCK_DURATION == 300000
DEFAULT_MAX_LOCK_DURATION == 30000
DEFAULT_LOG_LEVEL == 1
REDISMODULE_NO_EXPIRE == -1

\* strlen(":regen_lock") and sizeof(":regen_lock") (the latter counts the NUL)
SuffixLen == 11
SizeofSuffix == SuffixLen + 1

----------------------------------------------------------------------------
(* Bounds of the model                                                     *)

NCallers == 2
MaxTicks == 2

Callers == 1..NCallers

----------------------------------------------------------------------------
(* Keys.  A key is <<base, n>>: the string base ++ n copies of             *)
(* ":regen_lock".  Base "k" is a 490-byte string that does not end in the  *)
(* suffix, base "e" is the empty string.  So K is 490 bytes, KS = K ++     *)
(* suffix is 501 bytes, KSS is 512 bytes and KSSS is 523 bytes.            *)

BaseLen(b) ==
    CASE b = "e" -> 0
      [] b = "j" -> 1
      [] OTHER -> MAX_KEY_LENGTH - 2 * SuffixLen

KeyLen(key) == BaseLen(key[1]) + SuffixLen * key[2]

K == <<"k", 0>>
KS == <<"k", 1>>
KSS == <<"k", 2>>
KSSS == <<"k", 3>>
EmptyKey == <<"e", 0>>

\* base "j" is a one-byte string: J is 1 byte, JS = J ++ suffix is 12 bytes
J == <<"j", 0>>
JS == <<"j", 1>>

\* keys handed to CreateLockKey
DerivationKeys == {EmptyKey, J, JS, K, KS, KSS, KSSS}

\* keys a client may send
KeyInputs == {EmptyKey, K, KS, KSS, KSSS}

\* names under which the module can create a record (at most 512 bytes)
StoreNames == {K, KS, KSS}

NULL == <<"NULL", 0>>
NoRec == [val |-> "none", ttl |-> -2]

\* the value TryAcquireLock writes into a lock record
LockValue == "1"

\* values a client may send, with their byte lengths
ValueLen(v) ==
    CASE v = "v1" -> 2
      [] v = "big" -> MAX_VALUE_LENGTH
      [] v = "huge" -> MAX_VALUE_LENGTH + 1

ValueInputs == {"v1", "big", "huge"}

\* numeric arguments as sent on the wire: a decimal integer (num TRUE) or a
\* token RedisModule_StringToLongLong cannot parse (num FALSE)
Num(n) == [num |-> TRUE, v |-> n]
NaN == [num |-> FALSE, v |-> 0]
Nums(S) == {Num(n) : n \in S}

GraceInputs == {NaN} \cup Nums({MIN_GRACE_PERIOD_MS - 1, MIN_GRACE_PERIOD_MS,
                                MIN_EXPIRE_MS, DEFAULT_MAX_LOCK_DURATION + 1,
                                MAX_GRACE_PERIOD_MS + 1})
ExpireInputs == {NaN} \cup Nums({MIN_EXPIRE_MS - 1, MIN_EXPIRE_MS, MAX_EXPIRE_MS + 1})
TickDeltas == {MIN_GRACE_PERIOD_MS, MIN_EXPIRE_MS - MIN_GRACE_PERIOD_MS}

\* store-API calls that may fail inside a command ("none": every call succeeds)
GetFaults == {"none", "open", "dma", "lockopen", "lockset", "lockexpire"}
SetFaults == {"none", "open", "set", "expire", "lockopen"}

----------------------------------------------------------------------------
(* Replies                                                                 *)

ReplyNull == [kind |-> "null", val |-> "none"]
ReplyString(v) == [kind |-> "string", val |-> v]
ReplyError(msg) == [kind |-> "error", val |-> msg]
ReplyOK == [kind |-> "ok", val |-> "OK"]

----------------------------------------------------------------------------
(* Store primitives (the Redis module API the commands call)               *)

KeyTypeEmpty(st, name) == name \notin StoreNames \/ st[name] = NoRec

\* RedisModule_StringSet: writes the value and drops any TTL of the key
StringSet(st, name, v) ==
    [st EXCEPT ![name] = [val |-> v, ttl |-> REDISMODULE_NO_EXPIRE]]

SetExpire(st, name, ms) == [st EXCEPT ![name].ttl = ms]

DeleteKey(st, name) == [st EXCEPT ![name] = NoRec]

\* RedisModule_StringToLongLong: REDISMODULE_OK exactly for a decimal integer
StringToLongLongOK(s) == s.num

----------------------------------------------------------------------------
(* CreateLockKey: the lock key, or NULL                                    *)

\* variant: the lock key is built from the part of the key before its first
\* ":regen_lock"
CreateLockKey_FromPrefix(key) ==
    IF KeyLen(key) = 0 THEN NULL
    ELSE IF KeyLen(key) > MAX_KEY_LENGTH - SizeofSuffix THEN NULL
    ELSE <<key[1], 1>>

CreateLockKey(key) ==
    IF KeyLen(key) = 0 THEN NULL
    ELSE IF KeyLen(key) > MAX_KEY_LENGTH - SizeofSuffix THEN NULL
    ELSE <<key[1], key[2] + 1>>

----------------------------------------------------------------------------
(* TryAcquireLock: result is [acquired, store, hit]; hit says that the     *)
(* store call named by fault was executed (and failed).                    *)

LockExpireInvalid(cfg, lockExpireMs) ==
    lockExpireMs < MIN_GRACE_PERIOD_MS \/ lockExpireMs > cfg.max_lock_duration

\* variant: the lock is written without looking at the key type first
TryAcquireLock_Overwrite(st, cfg, key, lockExpireMs, fault) ==
    LET lockKey == CreateLockKey(key)
    IN  IF LockExpireInvalid(cfg, lockExpireMs) \/ lockKey = NULL
        THEN [acquired |-> 0, store |-> st, hit |-> FALSE]
        ELSE [acquired |-> 1, hit |-> FALSE,
              store |-> SetExpire(StringSet(st, lockKey, LockValue), lockKey,
                                  lockExpireMs)]

\* variant: a held lock has its expiry renewed by every attempt
TryAcquireLock_Extend(st, cfg, key, lockExpireMs, fault) ==
    LET lockKey == CreateLockKey(key)
    IN  IF LockExpireInvalid(cfg, lockExpireMs) \/ lockKey = NULL
        THEN [acquired |-> 0, store |-> st, hit |-> FALSE]
        ELSE IF KeyTypeEmpty(st, lockKey)
        THEN [acquired |-> 1, hit |-> FALSE,
              store |-> SetExpire(StringSet(st, lockKey, LockValue), lockKey,
                                  lockExpireMs)]
        ELSE [acquired |-> 0, hit |-> FALSE,
              store |-> SetExpire(st, lockKey, lockExpireMs)]

\* variant: the lock record is written without an expiry
TryAcquireLock_NoExpire(st, cfg, key, lockExpireMs, fault) ==
    LET lockKey == CreateLockKey(key)
    IN  IF LockExpireInvalid(cfg, lockExpireMs) \/ lockKey = NULL
        THEN [acquired |-> 0, store |-> st, hit |-> FALSE]
        ELSE IF KeyTypeEmpty(st, lockKey)
        THEN [acquired |-> 1, hit |-> FALSE,
              store |-> StringSet(st, lockKey, LockValue)]
        ELSE [acquired |-> 0, store |-> st, hit |-> FALSE]

\* variant: a lock whose expiry could not be set is left in the store
TryAcquireLock_KeepOnExpireFailure(st, cfg, key, lockExpireMs, fault) ==
    LET lockKey == CreateLockKey(key)
        no(h) == [acquired |-> 0, store |-> st, hit |-> h]
    IN  IF LockExpireInvalid(cfg, lockExpireMs) \/ lockKey = NULL THEN no(FALSE)
        ELSE IF fault = "lockopen" THEN no(TRUE)
        ELSE IF ~KeyTypeEmpty(st, lockKey) THEN no(FALSE)
        ELSE IF fault = "lockset" THEN no(TRUE)
        ELSE IF fault = "lockexpire"
        THEN [acquired |-> 0, hit |-> TRUE,
              store |-> StringSet(st, lockKey, LockValue)]
        ELSE [acquired |-> 1, hit |-> FALSE,
              store |-> SetExpire(StringSet(st, lockKey, LockValue), lockKey,
                                  lockExpireMs)]

\* variant: every lock is given the minimum duration
TryAcquireLock_MinimumTtl(st, cfg, key, lockExpireMs, fault) ==
    LET lockKey == CreateLockKey(key)
    IN  IF LockExpireInvalid(cfg, lockExpireMs) \/ lockKey = NULL
        THEN [acquired |-> 0, store |-> st, hit |-> FALSE]
        ELSE IF KeyTypeEmpty(st, lockKey)
        THEN [acquired |-> 1, hit |-> FALSE,
              store |-> SetExpire(StringSet(st, lockKey, LockValue), lockKey,
                                  MIN_GRACE_PERIOD_MS)]
        ELSE [acquired |-> 0, store |-> st, hit |-> FALSE]

TryAcquireLock(st, cfg, key, lockExpireMs, fault) ==
    LET lockKey == CreateLockKey(key)
        no(h) == [acquired |-> 0, store |-> st, hit |-> h]
    IN  IF LockExpireInvalid(cfg, lockExpireMs) THEN no(FALSE)
        ELSE IF lockKey = NULL THEN no(FALSE)
        ELSE IF fault = "lockopen" THEN no(TRUE)
        ELSE IF KeyTypeEmpty(st, lockKey)
        THEN IF fault = "lockset" THEN no(TRUE)
             ELSE IF fault = "lockexpire"
                  THEN [acquired |-> 0, hit |-> TRUE,
                        store |-> DeleteKey(StringSet(st, lockKey, LockValue), lockKey)]
                  ELSE [acquired |-> 1, hit |-> FALSE,
                        store |-> SetExpire(StringSet(st, lockKey, LockValue), lockKey,
                                            lockExpireMs)]
        ELSE no(FALSE)

----------------------------------------------------------------------------
(* cache.guard.get: result is [reply, store, hit]                          *)

\* variant: only a negative grace period is refused
GraceOutOfRange_NegativeOnly(gracePeriodMs) == gracePeriodMs < 0

GraceOutOfRange(gracePeriodMs) ==
    gracePeriodMs < MIN_GRACE_PERIOD_MS \/ gracePeriodMs > MAX_GRACE_PERIOD_MS

KeyTooLong(keyLen) == keyLen > MAX_KEY_LENGTH

\* variant: the no-expiry case is forgotten
IsFresh_IgnoresNoExpire(ttl, gracePeriodMs) == ttl > gracePeriodMs

\* variant: an entry whose remaining TTL equals the grace period is fresh
IsFresh_Inclusive(ttl, gracePeriodMs) ==
    ttl = REDISMODULE_NO_EXPIRE \/ ttl >= gracePeriodMs

\* "Cache valid and NOT within grace period"
IsFresh(ttl, gracePeriodMs) == ttl = REDISMODULE_NO_EXPIRE \/ ttl > gracePeriodMs

\* variant: the missing-key check is left out, so a missing key reads as a
\* record without expiry and without value
GetValidated_NoMissCheck(st, cfg, key, gracePeriodMs, fault) ==
    IF KeyTypeEmpty(st, key)
    THEN [reply |-> ReplyString(NoRec.val), store |-> st, hit |-> FALSE]
    ELSE [reply |-> ReplyString(st[key].val), store |-> st, hit |-> FALSE]

\* variant: a caller told Regenerate also has the entry's expiry pushed out
\* by the grace period
GetValidated_TouchesEntry(st, cfg, key, gracePeriodMs, fault) ==
    IF KeyTypeEmpty(st, key)
    THEN [reply |-> ReplyNull, store |-> st, hit |-> FALSE]
    ELSE IF IsFresh(st[key].ttl, gracePeriodMs)
    THEN [reply |-> ReplyString(st[key].val), store |-> st, hit |-> FALSE]
    ELSE LET r == TryAcquireLock(st, cfg, key, gracePeriodMs, fault)
         IN  IF r.acquired = 1
             THEN [reply |-> ReplyNull, hit |-> r.hit,
                   store |-> SetExpire(r.store, key, st[key].ttl + gracePeriodMs)]
             ELSE [reply |-> ReplyString(st[key].val), store |-> r.store,
                   hit |-> r.hit]

\* the command once its arguments are validated
GetValidated(st, cfg, key, gracePeriodMs, fault) ==
    IF fault = "open"
    THEN [reply |-> ReplyError("ERR failed to access key"), store |-> st, hit |-> TRUE]
    ELSE IF KeyTypeEmpty(st, key)
    THEN [reply |-> ReplyNull, store |-> st, hit |-> FALSE]
    ELSE IF fault = "dma"
    THEN [reply |-> ReplyError("ERR failed to read value"), store |-> st, hit |-> TRUE]
    ELSE LET ttl == st[key].ttl
             val == st[key].val
         IN  IF IsFresh(ttl, gracePeriodMs)
             THEN [reply |-> ReplyString(val), store |-> st, hit |-> FALSE]
             ELSE LET r == TryAcquireLock(st, cfg, key, gracePeriodMs, fault)
                  IN  IF r.acquired = 1
                      THEN [reply |-> ReplyNull, store |-> r.store, hit |-> r.hit]
                      ELSE [reply |-> ReplyString(val), store |-> r.store,
                            hit |-> r.hit]

CacheGuardGetCommand(st, cfg, key, graceArg, fault) ==
    LET err(m) == [reply |-> ReplyError(m), store |-> st, hit |-> FALSE]
    IN  IF ~StringToLongLongOK(graceArg)
        THEN err("ERR invalid grace period format")
        ELSE IF GraceOutOfRange(graceArg.v)
        THEN err("ERR grace period must be between 100ms and 24 hours")
        ELSE IF KeyLen(key) = 0 THEN err("ERR empty key not allowed")
        ELSE IF KeyTooLong(KeyLen(key)) THEN err("ERR key too long")
        ELSE GetValidated(st, cfg, key, graceArg.v, fault)

----------------------------------------------------------------------------
(* cache.guard.set: result is [reply, store, hit]                          *)

ValueTooLarge(valueLen) == valueLen > MAX_VALUE_LENGTH

\* variant: only a non-positive expire is refused
ExpireOutOfRange_NonPositiveOnly(expire) == expire <= 0

ExpireOutOfRange(expire) == expire < MIN_EXPIRE_MS \/ expire > MAX_EXPIRE_MS

\* "Clean up regeneration lock": result is [store, hit]
ReleaseLock(st, key, fault) ==
    LET lockKey == CreateLockKey(key)
    IN  IF lockKey = NULL THEN [store |-> st, hit |-> FALSE]
        ELSE IF fault = "lockopen" THEN [store |-> st, hit |-> TRUE]
        ELSE IF ~KeyTypeEmpty(st, lockKey)
        THEN [store |-> DeleteKey(st, lockKey), hit |-> FALSE]
        ELSE [store |-> st, hit |-> FALSE]

\* variant: the value is written only when the key is empty (set-if-absent)
SetValidated_IfAbsent(st, key, value, expire, fault) ==
    LET w == IF KeyTypeEmpty(st, key)
             THEN SetExpire(StringSet(st, key, value), key, expire)
             ELSE st
        r == ReleaseLock(w, key, fault)
    IN  [reply |-> ReplyOK, store |-> r.store, hit |-> r.hit]

\* variant: a Set that finds no lock to release reports that as an error
SetValidated_AbsentLockIsError(st, key, value, expire, fault) ==
    LET w == SetExpire(StringSet(st, key, value), key, expire)
        lockKey == CreateLockKey(key)
    IN  IF lockKey = NULL \/ KeyTypeEmpty(w, lockKey)
        THEN [reply |-> ReplyError("ERR no lock to release"), store |-> w,
              hit |-> FALSE]
        ELSE [reply |-> ReplyOK, store |-> DeleteKey(w, lockKey), hit |-> FALSE]

\* variant: the lock is released before the value is written
SetValidated_ReleaseFirst(st, key, value, expire, fault) ==
    LET r == ReleaseLock(st, key, fault)
    IN  IF fault = "open"
        THEN [reply |-> ReplyError("ERR failed to access key"), store |-> st,
              hit |-> TRUE]
        ELSE IF fault = "set"
        THEN [reply |-> ReplyError("ERR failed to set value"), store |-> r.store,
              hit |-> TRUE]
        ELSE IF fault = "expire"
        THEN [reply |-> ReplyError("ERR failed to set expiration"),
              store |-> StringSet(r.store, key, value), hit |-> TRUE]
        ELSE [reply |-> ReplyOK, hit |-> r.hit,
              store |-> SetExpire(StringSet(r.store, key, value), key, expire)]

\* the command once its arguments are validated
SetValidated(st, key, value, expire, fault) ==
    IF fault = "open"
    THEN [reply |-> ReplyError("ERR failed to access key"), store |-> st, hit |-> TRUE]
    ELSE IF fault = "set"
    THEN [reply |-> ReplyError("ERR failed to set value"), store |-> st, hit |-> TRUE]
    ELSE IF fault = "expire"
    THEN [reply |-> ReplyError("ERR failed to set expiration"),
          store |-> StringSet(st, key, value), hit |-> TRUE]
    ELSE LET r == ReleaseLock(SetExpire(StringSet(st, key, value), key, expire),
                              key, fault)
         IN  [reply |-> ReplyOK, store |-> r.store, hit |-> r.hit]

CacheGuardSetCommand(st, key, value, expireArg, fault) ==
    LET err(m) == [reply |-> ReplyError(m), store |-> st, hit |-> FALSE]
    IN  IF KeyLen(key) = 0 THEN err("ERR empty key not allowed")
        ELSE IF KeyTooLong(KeyLen(key)) THEN err("ERR key too long")
        ELSE IF ValueTooLarge(ValueLen(value)) THEN err("ERR value too large")
        ELSE IF ~StringToLongLongOK(expireArg)
        THEN err("ERR invalid expire time format")
        ELSE IF ExpireOutOfRange(expireArg.v)
        THEN err("ERR expire time must be between 1 second and 7 days")
        ELSE SetValidated(st, key, value, expireArg.v, fault)

----------------------------------------------------------------------------
(* cache.guard.config: result is [reply, cfg].  argv holds the arguments   *)
(* after the command name, so argc = Len(argv) + 1.                        *)

MIN_LOG_LEVEL == 0
MAX_LOG_LEVEL == 3

ReplyLongLong(n) == [kind |-> "integer", val |-> "none", n |-> n]

\* strcasecmp(s, t) == 0 for the tokens a client may send
StrCaseEq(s, t) ==
    LET Upper(x) == CASE x = "get" -> "GET"
                      [] x = "set" -> "SET"
                      [] OTHER -> x
    IN  Upper(s) = Upper(t)

LogLevelOutOfRange(value) == value < MIN_LOG_LEVEL \/ value > MAX_LOG_LEVEL

\* variant: any positive max lock duration is accepted
MaxLockDurationOutOfRange_PositiveOnly(value) == value <= 0

MaxLockDurationOutOfRange(value) ==
    value < MIN_MAX_LOCK_DURATION \/ value > MAX_MAX_LOCK_DURATION

CacheGuardConfigCommand(cfg, argv) ==
    LET argc == Len(argv) + 1
        err(m) == [reply |-> ReplyError(m), cfg |-> cfg]
        WrongArity == err("ERR wrong number of arguments")
    IN  IF argc < 2 THEN WrongArity
        ELSE IF StrCaseEq(argv[1], "GET")
        THEN IF argc # 3 THEN WrongArity
             ELSE IF StrCaseEq(argv[2], "log_level")
             THEN [reply |-> ReplyLongLong(cfg.log_level), cfg |-> cfg]
             ELSE IF StrCaseEq(argv[2], "max_lock_duration")
             THEN [reply |-> ReplyLongLong(cfg.max_lock_duration), cfg |-> cfg]
             ELSE err("ERR unknown parameter")
        ELSE IF StrCaseEq(argv[1], "SET")
        THEN IF argc # 4 THEN WrongArity
             ELSE IF ~StringToLongLongOK(argv[3]) THEN err("ERR invalid value")
             ELSE IF StrCaseEq(argv[2], "log_level")
             THEN IF LogLevelOutOfRange(argv[3].v)
                  THEN err("ERR log level must be 0-3")
                  ELSE [reply |-> ReplyOK,
                        cfg |-> [cfg EXCEPT !.log_level = argv[3].v]]
             ELSE IF StrCaseEq(argv[2], "max_lock_duration")
             THEN IF MaxLockDurationOutOfRange(argv[3].v)
                  THEN err("ERR max lock duration must be 1s-5m")
                  ELSE [reply |-> ReplyOK,
                        cfg |-> [cfg EXCEPT !.max_lock_duration = argv[3].v]]
             ELSE err("ERR unknown parameter")
        ELSE err("ERR unknown subcommand")

----------------------------------------------------------------------------
(* The cachemod module: CACHE.SETSM and CACHE.GETSM; results are           *)
(* [reply, store].  Neither command looks at the result of a store call.   *)

\* RedisModule_SetExpire as the API defines it for any argument: a negative
\* expire other than REDISMODULE_NO_EXPIRE is refused and changes nothing,
\* REDISMODULE_NO_EXPIRE removes the expiry
SetExpireAny(st, name, ms) ==
    IF ms < 0 /\ ms # REDISMODULE_NO_EXPIRE THEN st
    ELSE [st EXCEPT ![name].ttl = ms]

CacheSetSMCommand(st, key, value, expireArg) ==
    IF ~StringToLongLongOK(expireArg)
    THEN [reply |-> ReplyError("ERR invalid expire time"), store |-> st]
    ELSE [reply |-> ReplyOK,
          store |-> SetExpireAny(StringSet(st, key, value), key, expireArg.v)]

\* variant: an expired key is reported as missing but left in the store
CacheGetSMCommand_NoDelete(st, key) ==
    IF KeyTypeEmpty(st, key) THEN [reply |-> ReplyNull, store |-> st]
    ELSE IF st[key].ttl = REDISMODULE_NO_EXPIRE \/ st[key].ttl > 0
    THEN [reply |-> ReplyString(st[key].val), store |-> st]
    ELSE [reply |-> ReplyNull, store |-> st]

CacheGetSMCommand(st, key) ==
    IF KeyTypeEmpty(st, key) THEN [reply |-> ReplyNull, store |-> st]
    ELSE LET ttl == st[key].ttl
         IN  IF ttl = REDISMODULE_NO_EXPIRE \/ ttl > 0
             THEN [reply |-> ReplyString(st[key].val), store |-> st]
             ELSE [reply |-> ReplyNull, store |-> DeleteKey(st, key)]

----------------------------------------------------------------------------
(* Passage of time in the store.  A record lives while its remaining TTL   *)
(* is >= 0: Redis expires a key once now > expire-at, and                  *)
(* RedisModule_GetExpire reports expire-at - now.                          *)

Expire(st, d) ==
    [n \in StoreNames |->
        IF st[n] = NoRec \/ st[n].ttl = REDISMODULE_NO_EXPIRE THEN st[n]
        ELSE IF st[n].ttl - d < 0 THEN NoRec
        ELSE [st[n] EXCEPT !.ttl = st[n].ttl - d]]

----------------------------------------------------------------------------
(* Callers.  A caller told Regenerate by Get is "regen" on that key until  *)
(* its own Set on the key returns OK.  lockLive: the caller's Get found   *)
(* the entry and was told Regenerate, which the command does exactly when *)
(* TryAcquireLock returned 1, and the lock record has existed ever since. *)

IdleCaller == [st |-> "idle", key |-> EmptyKey, lockLive |-> FALSE]

LockName(key) == <<key[1], key[2] + 1>>

LockPresent(st, key) == ~KeyTypeEmpty(st, LockName(key))

\* a lock that is gone is no longer live
Refresh(cs, st) ==
    [c \in Callers |->
        IF cs[c].st = "regen" /\ cs[c].lockLive /\ ~LockPresent(st, cs[c].key)
        THEN [cs[c] EXCEPT !.lockLive = FALSE]
        ELSE cs[c]]

\* written[key]: the value the last Set wrote under key, and whether that
\* Set returned OK
NoWrite == [val |-> "none", ok |-> FALSE]

Init ==
    /\ store = [n \in StoreNames |-> NoRec]
    /\ module_config = [log_level |-> DEFAULT_LOG_LEVEL,
                        max_lock_duration |-> DEFAULT_MAX_LOCK_DURATION]
    /\ callers = [c \in Callers |-> IdleCaller]
    /\ last = [op |-> "init", key |-> EmptyKey, arg |-> NaN, val |-> "none",
               fault |-> "none", hit |-> FALSE, reply |-> ReplyOK]
    /\ written = [n \in StoreNames |-> NoWrite]
    /\ ticks = 0

\* one cache.guard.get command, run to completion
Get(key, grace, fault) ==
    /\ LET r == CacheGuardGetCommand(store, module_config, key, grace, fault)
       IN  /\ store' = r.store
           /\ last' = [op |-> "get", key |-> key, arg |-> grace, val |-> "none",
                       fault |-> fault, hit |-> r.hit, reply |-> r.reply]
    /\ UNCHANGED <<module_config, written, ticks>>

\* one cache.guard.set command, run to completion
Set(key, value, expire, fault) ==
    /\ LET r == CacheGuardSetCommand(store, key, value, expire, fault)
       IN  /\ store' = r.store
           /\ last' = [op |-> "set", key |-> key, arg |-> expire, val |-> value,
                       fault |-> fault, hit |-> r.hit, reply |-> r.reply]
           /\ written' =
                  IF r.reply = ReplyOK
                  THEN [written EXCEPT ![key] = [val |-> value, ok |-> TRUE]]
                  ELSE IF r.hit /\ fault = "expire"
                  THEN [written EXCEPT ![key] = [val |-> value, ok |-> FALSE]]
                  ELSE written
    /\ UNCHANGED <<module_config, ticks>>

\* d milliseconds pass
Tick(d) ==
    /\ ticks < MaxTicks
    /\ ticks' = ticks + 1
    /\ store' = Expire(store, d)
    /\ callers' = Refresh(callers, store')
    /\ UNCHANGED <<module_config, last, written>>

----------------------------------------------------------------------------
(* Spec: any client sends any command, every store call succeeds           *)

GetInputs == (KeyInputs \X {Num(MIN_EXPIRE_MS)}) \cup ({EmptyKey, K, KS} \X GraceInputs)

SetInputs ==
    (KeyInputs \X {"v1"} \X {Num(MIN_EXPIRE_MS)})
        \cup ({EmptyKey, K} \X ValueInputs \X ExpireInputs)

ClientGet(i) == Get(i[1], i[2], "none") /\ UNCHANGED callers

ClientSet(i) == Set(i[1], i[2], i[3], "none") /\ UNCHANGED callers

Next ==
    \/ \E i \in GetInputs : ClientGet(i)
    \/ \E i \in SetInputs : ClientSet(i)
    \/ \E d \in TickDeltas : Tick(d)

Spec == Init /\ [][Next]_vars

----------------------------------------------------------------------------
(* FaultSpec: commands on key K with valid arguments, where one store call *)
(* of the command may fail                                                 *)

ValidGraces == Nums({MIN_GRACE_PERIOD_MS, MIN_EXPIRE_MS, DEFAULT_MAX_LOCK_DURATION + 1})

FaultGet(g, f) == Get(K, g, f) /\ UNCHANGED callers

FaultSet(v, f) == Set(K, v, Num(MIN_EXPIRE_MS), f) /\ UNCHANGED callers

FaultNext ==
    \/ \E g \in ValidGraces, f \in GetFaults : FaultGet(g, f)
    \/ \E v \in {"v1", "big"}, f \in SetFaults : FaultSet(v, f)
    \/ \E d \in TickDeltas : Tick(d)

FaultSpec == Init /\ [][FaultNext]_vars

----------------------------------------------------------------------------
(* ProtoSpec: NCallers clients follow the documented pattern on key K: an  *)
(* idle caller sends Get; told Regenerate (null) it recomputes and sends   *)
(* Set for that key, or never does.  Any caller may also Set at any time.  *)

CallerGet(c, g) ==
    /\ callers[c].st = "idle"
    /\ Get(K, g, "none")
    /\ callers' = Refresh(
           IF last'.reply = ReplyNull
           THEN [callers EXCEPT ![c] =
                    [st |-> "regen", key |-> K,
                     lockLive |-> ~KeyTypeEmpty(store, K) /\ LockPresent(store', K)]]
           ELSE callers, store')

CallerSet(c, v) ==
    /\ Set(K, v, Num(MIN_EXPIRE_MS), "none")
    /\ callers' = Refresh(
           IF last'.reply = ReplyOK
           THEN [callers EXCEPT ![c] = IdleCaller]
           ELSE callers, store')

ProtoNext ==
    \/ \E c \in Callers, g \in ValidGraces : CallerGet(c, g)
    \/ \E c \in Callers, v \in {"v1", "big"} : CallerSet(c, v)
    \/ \E d \in TickDeltas : Tick(d)

ProtoSpec == Init /\ [][ProtoNext]_vars

----------------------------------------------------------------------------
(* ConfigSpec: an operator changes the configuration while clients use key *)
(* K with valid arguments                                                  *)

ConfigParams == {"log_level", "max_lock_duration", "timeout"}

ConfigValues ==
    {NaN} \cup Nums({MIN_LOG_LEVEL, MAX_LOG_LEVEL + 1, MIN_MAX_LOCK_DURATION - 1,
                     MIN_MAX_LOCK_DURATION, MAX_MAX_LOCK_DURATION,
                     MAX_MAX_LOCK_DURATION + 1})

ConfigInputs ==
    {<<>>, <<"GET">>, <<"DEL", "log_level">>, <<"set", "log_level">>}
        \cup ({"GET", "get"} \X ConfigParams)
        \cup ({"SET", "set"} \X ConfigParams \X ConfigValues)

\* one cache.guard.config command, run to completion
Config(argv) ==
    /\ LET r == CacheGuardConfigCommand(module_config, argv)
       IN  /\ module_config' = r.cfg
           /\ last' = [op |-> "config", key |-> EmptyKey,
                       arg |-> IF Len(argv) >= 3 THEN argv[3] ELSE NaN,
                       val |-> IF Len(argv) >= 2 THEN argv[2] ELSE "none",
                       fault |-> "none", hit |-> FALSE, reply |-> r.reply,
                       cmd |-> IF Len(argv) >= 1 THEN argv[1] ELSE "none"]
    /\ UNCHANGED <<store, callers, written, ticks>>

ConfigGet(g) == Get(K, g, "none") /\ UNCHANGED callers

ConfigSetEntry == Set(K, "v1", Num(MIN_EXPIRE_MS), "none") /\ UNCHANGED callers

ConfigNext ==
    \/ \E a \in ConfigInputs : Config(a)
    \/ \E g \in ValidGraces : ConfigGet(g)
    \/ ConfigSetEntry
    \/ \E d \in TickDeltas : Tick(d)

ConfigSpec == Init /\ [][ConfigNext]_vars

----------------------------------------------------------------------------
(* LiveSpec: the callers of ProtoSpec with time that never stops.  No step *)
(* counter is kept here: remaining TTLs only fall between commands, so the *)
(* state space is finite without one.                                      *)

\* d milliseconds pass
Elapse(d) ==
    /\ store' = Expire(store, d)
    /\ callers' = Refresh(callers, store')
    /\ UNCHANGED <<module_config, last, written, ticks>>

LiveNext ==
    \/ \E c \in Callers, g \in ValidGraces : CallerGet(c, g)
    \/ \E c \in Callers : CallerSet(c, "v1")
    \/ \E d \in TickDeltas : Elapse(d)

LiveSpec == Init /\ [][LiveNext]_vars /\ WF_vars(\E d \in TickDeltas : Elapse(d))

----------------------------------------------------------------------------
(* CacheModSpec: clients of the cachemod module on key K                   *)

SMExpireInputs ==
    {NaN} \cup Nums({REDISMODULE_NO_EXPIRE - 1, REDISMODULE_NO_EXPIRE, 0,
                     MIN_GRACE_PERIOD_MS, MIN_EXPIRE_MS})

\* one CACHE.GETSM command, run to completion
GetSM(key) ==
    /\ LET r == CacheGetSMCommand(store, key)
       IN  /\ store' = r.store
           /\ last' = [op |-> "getsm", key |-> key, arg |-> NaN, val |-> "none",
                       fault |-> "none", hit |-> FALSE, reply |-> r.reply]
    /\ UNCHANGED <<module_config, callers, written, ticks>>

\* one CACHE.SETSM command, run to completion
SetSM(key, value, expire) ==
    /\ LET r == CacheSetSMCommand(store, key, value, expire)
       IN  /\ store' = r.store
           /\ last' = [op |-> "setsm", key |-> key, arg |-> expire, val |-> value,
                       fault |-> "none", hit |-> FALSE, reply |-> r.reply]
           /\ written' = IF r.reply = ReplyOK
                         THEN [written EXCEPT ![key] = [val |-> value, ok |-> TRUE]]
                         ELSE written
    /\ UNCHANGED <<module_config, callers, ticks>>

CacheModNext ==
    \/ GetSM(K)
    \/ \E v \in {"v1", "big"}, e \in SMExpireInputs : SetSM(K, v, e)
    \/ \E d \in TickDeltas : Tick(d)

CacheModSpec == Init /\ [][CacheModNext]_vars

----------------------------------------------------------------------------
(* RaceSpec: the three store steps of TryAcquireLock on key K (look at the *)
(* key type, write the value, set the expiry) taken one at a time, so that *)
(* the steps of two callers may interleave.  A caller is "idle", "checked" *)
(* (saw the lock key empty), "wrote" or "acquired" (returned 1; it stays   *)
(* so while the lock record exists).  overlap: another caller was between  *)
(* its check and its return during this caller's attempt.                  *)

RaceDurations == {MIN_GRACE_PERIOD_MS, MIN_EXPIRE_MS}

RaceIdle == [st |-> "idle", key |-> EmptyKey, lockLive |-> FALSE,
             ms |-> 0, overlap |-> FALSE]

InAttempt(c) == callers[c].st \in {"checked", "wrote"}

\* variant: the lock key is taken to be empty without looking
LockSeenEmpty_Always(st, lockKey) == TRUE

\* RedisModule_KeyType(lock) == REDISMODULE_KEYTYPE_EMPTY
LockSeenEmpty(st, lockKey) == KeyTypeEmpty(st, lockKey)

\* the lock duration is validated, the lock key derived and opened, and the
\* key type looked at; a lock that is there ends the attempt with 0
AcquireCheck(c, ms) ==
    /\ callers[c].st = "idle"
    /\ ~LockExpireInvalid(module_config, ms)
    /\ CreateLockKey(K) # NULL
    /\ LockSeenEmpty(store, CreateLockKey(K))
    /\ LET others == {d \in Callers \ {c} : InAttempt(d)}
       IN  callers' =
               [d \in Callers |->
                   IF d = c
                   THEN [st |-> "checked", key |-> K, lockLive |-> FALSE, ms |-> ms,
                         overlap |-> others # {}]
                   ELSE IF d \in others THEN [callers[d] EXCEPT !.overlap = TRUE]
                   ELSE callers[d]]
    /\ UNCHANGED <<store, module_config, last, written, ticks>>

\* RedisModule_StringSet(lock, lockValue)
AcquireWrite(c) ==
    /\ callers[c].st = "checked"
    /\ store' = StringSet(store, CreateLockKey(K), LockValue)
    /\ callers' = [callers EXCEPT ![c].st = "wrote"]
    /\ UNCHANGED <<module_config, last, written, ticks>>

\* RedisModule_SetExpire(lock, lockExpireMs), which fails on a key that is
\* empty by now: the attempt then ends with 0
AcquireExpire(c) ==
    /\ callers[c].st = "wrote"
    /\ IF KeyTypeEmpty(store, CreateLockKey(K))
       THEN /\ store' = DeleteKey(store, CreateLockKey(K))
            /\ callers' = [callers EXCEPT ![c] = RaceIdle]
       ELSE /\ store' = SetExpire(store, CreateLockKey(K), callers[c].ms)
            /\ callers' = [callers EXCEPT ![c].st = "acquired", ![c].lockLive = TRUE]
    /\ UNCHANGED <<module_config, last, written, ticks>>

\* d milliseconds pass; a caller whose lock is gone no longer holds it
RaceTick(d) ==
    /\ ticks < MaxTicks
    /\ ticks' = ticks + 1
    /\ store' = Expire(store, d)
    /\ callers' = [c \in Callers |->
                      IF callers[c].st = "acquired" /\ ~LockPresent(store', K)
                      THEN RaceIdle
                      ELSE callers[c]]
    /\ UNCHANGED <<module_config, last, written>>

RaceNext ==
    \/ \E c \in Callers, ms \in RaceDurations : AcquireCheck(c, ms)
    \/ \E c \in Callers : AcquireWrite(c)
    \/ \E c \in Callers : AcquireExpire(c)
    \/ \E d \in TickDeltas : RaceTick(d)

RaceSpec == Init /\ [][RaceNext]_vars

----------------------------------------------------------------------------
(* Vocabulary of the properties                                            *)

\* the step is a cache.guard.get / cache.guard.set command (not time passing)
GetStep == ticks' = ticks /\ last'.op = "get"
SetStep == ticks' = ticks /\ last'.op = "set"

\* the arguments of command l are the ones the documentation accepts
AcceptedKey(l) == KeyLen(l.key) >= 1 /\ KeyLen(l.key) <= MAX_KEY_LENGTH
AcceptedGrace(l) ==
    l.arg.num /\ l.arg.v >= MIN_GRACE_PERIOD_MS /\ l.arg.v <= MAX_GRACE_PERIOD_MS
AcceptedValue(l) == ValueLen(l.val) <= MAX_VALUE_LENGTH
AcceptedExpire(l) == l.arg.num /\ l.arg.v >= MIN_EXPIRE_MS /\ l.arg.v <= MAX_EXPIRE_MS

\* a cache entry: a record a Set wrote (not a lock record)
IsEntry(st, key) == ~KeyTypeEmpty(st, key) /\ st[key].val # LockValue

HasExpiry(st, key) == st[key].ttl # REDISMODULE_NO_EXPIRE

\* the entry is within grace: 0 < remaining TTL <= grace
InGrace(st, key, g) ==
    IsEntry(st, key) /\ HasExpiry(st, key) /\ 0 < st[key].ttl /\ st[key].ttl <= g

----------------------------------------------------------------------------
(* C1.  For an entry in grace and accepted arguments: a Get that finds no  *)
(* lock record is told Regenerate (null) and leaves a lock record; a Get   *)
(* that finds the lock record is given the stored value.  Hence of N Gets  *)
(* with no Set in between exactly one is told Regenerate.                  *)
C1_ExactlyOneRegenerates ==
    [][(GetStep /\ AcceptedKey(last') /\ AcceptedGrace(last')
            /\ InGrace(store, last'.key, last'.arg.v))
        => IF LockPresent(store, last'.key)
           THEN last'.reply = ReplyString(store[last'.key].val)
           ELSE last'.reply = ReplyNull /\ LockPresent(store', last'.key)]_vars

----------------------------------------------------------------------------
(* C2.  Original: at most one caller per key has been told Regenerate and  *)
(* has not completed its Set.                                              *)
Regenerating(k) == {c \in Callers : callers[c].st = "regen" /\ callers[c].key = k}

C2_AtMostOneRegenerating == \A k \in StoreNames : Cardinality(Regenerating(k)) <= 1

(* C2, amended.  At most one caller per key has been told Regenerate by a  *)
(* Get that created the key's lock record, has not completed its Set, and  *)
(* still has that lock record in the store.                                *)
C2_AtMostOneLockHolder ==
    \A k \in StoreNames :
        Cardinality({c \in Regenerating(k) : callers[c].lockLive}) <= 1

\* one caller holds the lock while the other has been told Regenerate too
C2_Witness ==
    \E c, d \in Callers :
        /\ c # d
        /\ callers[c].st = "regen" /\ callers[c].lockLive
        /\ callers[d].st = "regen" /\ ~callers[d].lockLive
        /\ LockPresent(store, K)

----------------------------------------------------------------------------
(* C3.  A Get with accepted arguments on a key that has no record is told  *)
(* Regenerate (null), whether or not the key's lock record exists, and     *)
(* the store is left as it was.                                            *)
C3_AbsentIsRegenerate ==
    [][(GetStep /\ AcceptedKey(last') /\ AcceptedGrace(last')
            /\ KeyTypeEmpty(store, last'.key))
        => last'.reply = ReplyNull /\ store' = store]_vars

\* a Get was told Regenerate for an absent entry whose lock record exists
C3_Witness ==
    /\ last.op = "get" /\ last.key = K /\ last.reply = ReplyNull
    /\ KeyTypeEmpty(store, K) /\ LockPresent(store, K)

----------------------------------------------------------------------------
(* C4.  Original: a Get (none of whose store calls fails) on an entry      *)
(* whose remaining TTL exceeds the grace period, or that has no expiry,    *)
(* returns the value written by the last successful Set and changes        *)
(* nothing in the store.                                                   *)
FreshGetStep ==
    /\ GetStep /\ ~last'.hit /\ AcceptedKey(last') /\ AcceptedGrace(last')
    /\ IsEntry(store, last'.key)
    /\ (~HasExpiry(store, last'.key) \/ store[last'.key].ttl > last'.arg.v)

C4_FreshIsLastSuccessfulSet ==
    [][FreshGetStep
        => /\ written[last'.key].ok
           /\ last'.reply = ReplyString(written[last'.key].val)
           /\ store' = store]_vars

(* C4, amended.  Such a Get returns the value written by the last Set that *)
(* wrote the entry (a Set that returned OK, or one that wrote the value    *)
(* and then failed to set the expiry), and changes nothing in the store.   *)
C4_FreshIsLastWrittenValue ==
    [][FreshGetStep
        => /\ last'.reply = ReplyString(written[last'.key].val)
           /\ store' = store]_vars

\* a fresh value was returned for an entry without expiry while the lock is held
C4_Witness ==
    /\ last.op = "get" /\ last.key = K /\ ~last.hit
    /\ IsEntry(store, K) /\ ~HasExpiry(store, K)
    /\ last.reply = ReplyString(store[K].val)
    /\ LockPresent(store, K)

----------------------------------------------------------------------------
(* C5.  After a Set that returned OK, the next command on the store, if it *)
(* is a Get on the same key with an accepted grace period smaller than the *)
(* entry's remaining TTL (however much time has passed), returns the value *)
(* that Set was given.                                                     *)
C5_SetThenGet ==
    [][(/\ last.op = "set" /\ last.reply = ReplyOK
        /\ GetStep /\ last'.key = last.key /\ AcceptedGrace(last')
        /\ ~KeyTypeEmpty(store, last.key)
        /\ store[last.key].ttl > last'.arg.v)
        => last'.reply = ReplyString(last.val)]_vars

\* a Get returned the value of the Set before it, after an earlier Set of
\* another value
C5_Witness ==
    /\ last.op = "get" /\ last.key = K
    /\ written[K] = [val |-> "big", ok |-> TRUE]
    /\ last.reply = ReplyString("big")
    /\ ticks > 0

----------------------------------------------------------------------------
(* C6.  When a Set has returned OK for a key, no lock record of that key   *)
(* is in the store.                                                        *)
C6_NoLockAfterSet ==
    (last.op = "set" /\ last.reply = ReplyOK) => ~LockPresent(store, last.key)

----------------------------------------------------------------------------
(* C7.  A Get with accepted arguments that finds an entry whose remaining  *)
(* TTL is <= 0 is told Regenerate, and the entry is gone afterwards.       *)
C7_ExpiredIsPurged ==
    [][(GetStep /\ AcceptedKey(last') /\ AcceptedGrace(last')
            /\ IsEntry(store, last'.key) /\ HasExpiry(store, last'.key)
            /\ store[last'.key].ttl <= 0)
        => last'.reply = ReplyNull /\ KeyTypeEmpty(store', last'.key)]_vars

----------------------------------------------------------------------------
(* C8.  A Get in which a store call failed replies with an error.          *)
C8_StoreFailureIsError ==
    (last.op = "get" /\ last.hit) => last.reply.kind = "error"

----------------------------------------------------------------------------
(* C9.  A Get with an empty key, a key longer than 512 bytes, or a grace   *)
(* period that is not a number in [100 ms, 24 h] replies with an error and *)
(* leaves the store (entries and lock records) as it was.                  *)
C9_InvalidGetRejected ==
    [][(GetStep /\ (~AcceptedKey(last') \/ ~AcceptedGrace(last')))
        => last'.reply.kind = "error" /\ store' = store]_vars

\* a Get with grace 99 was refused while the key's entry and lock exist
C9_Witness ==
    /\ last.op = "get" /\ last.key = K /\ last.arg = Num(MIN_GRACE_PERIOD_MS - 1)
    /\ last.reply.kind = "error"
    /\ IsEntry(store, K) /\ LockPresent(store, K)

----------------------------------------------------------------------------
(* C10.  A Set with an empty or over-long key, a value above 10 MiB, or an *)
(* expire that is not a number in [1 s, 7 d] replies with an error and     *)
(* leaves the store as it was: the entry and the key's lock record are     *)
(* neither created, changed nor deleted.                                   *)
C10_InvalidSetRejected ==
    [][(SetStep /\ (~AcceptedKey(last') \/ ~AcceptedValue(last')
                      \/ ~AcceptedExpire(last')))
        => last'.reply.kind = "error" /\ store' = store]_vars

\* an over-large value was refused while the key's entry and lock exist
C10_Witness ==
    /\ last.op = "set" /\ last.key = K /\ last.val = "huge"
    /\ last.arg = Num(MIN_EXPIRE_MS)
    /\ last.reply.kind = "error"
    /\ IsEntry(store, K) /\ LockPresent(store, K)

----------------------------------------------------------------------------
(* C11.  In every state every lock record has a remaining TTL of at most   *)
(* the max_lock_duration configured in that state.                         *)
C11_LockTtlWithinConfiguredMax ==
    (LockPresent(store, K) /\ store[LockName(K)].val = LockValue)
        => /\ store[LockName(K)].ttl # REDISMODULE_NO_EXPIRE
           /\ store[LockName(K)].ttl <= module_config.max_lock_duration

----------------------------------------------------------------------------
(* C12.  An acquire attempt that finds a lock record for the key returns   *)
(* not-acquired and leaves the store, hence the record's value and expiry, *)
(* as it was, whatever lock duration is asked for and whichever store call *)
(* might fail.                                                             *)
C12_HeldLockUntouched ==
    \A key \in {K, KS}, g \in ValidGraces, f \in GetFaults :
        LockPresent(store, key)
            => LET r == TryAcquireLock(store, module_config, key, g.v, f)
               IN  r.acquired = 0 /\ r.store = store

\* a Get was given the stale value under a lock that is older than the grace
\* period it asked for, and the lock kept its shorter remaining TTL
C12_Witness ==
    /\ last.op = "get" /\ last.key = K /\ last.arg.num
    /\ InGrace(store, K, last.arg.v)
    /\ last.reply = ReplyString(store[K].val)
    /\ LockPresent(store, K)
    /\ store[LockName(K)].ttl < last.arg.v

----------------------------------------------------------------------------
----------------------------------------------------------------------------
(* C14.  With time advancing, a lock record never stays forever: whenever  *)
(* the lock of K exists, whether or not anybody calls Set, it is           *)
(* eventually gone.  And whenever the lock is gone and the entry of K is   *)
(* in grace, a Get acquires the lock and is told Regenerate.               *)
C14_LockEventuallyExpires ==
    /\ LockPresent(store, K) ~> ~LockPresent(store, K)
    /\ [](\A g \in {Num(MIN_GRACE_PERIOD_MS), Num(MIN_EXPIRE_MS)} :
            (~LockPresent(store, K) /\ InGrace(store, K, g.v))
                => LET r == CacheGuardGetCommand(store, module_config, K, g, "none")
                   IN  r.reply = ReplyNull /\ LockPresent(r.store, K))

\* the last command was a Get that was given the stale value, which for a
\* grace period of 1 s (no entry lives longer here) means the lock was held;
\* only time has passed since, the lock is gone, and a caller that was told
\* Regenerate has still not called Set
C14_Witness ==
    /\ last.op = "get" /\ last.key = K /\ last.arg = Num(MIN_EXPIRE_MS)
    /\ last.reply.kind = "string"
    /\ ~LockPresent(store, K)
    /\ \E c \in Callers : callers[c].st = "regen" /\ callers[c].key = K

----------------------------------------------------------------------------
(* C15.  A Set whose lock-release step failed (the lock key could not be   *)
(* opened) replies with an error.                                          *)
C15_ReleaseFailureIsError ==
    (last.op = "set" /\ last.hit /\ last.fault = "lockopen")
        => last.reply.kind = "error"

----------------------------------------------------------------------------
(* C16.  A Set replies OK only if no call up to the TTL write failed, the  *)
(* entry then holds the given value and TTL, and the release was carried   *)
(* out (the lock is gone unless opening the lock key failed).  A Set whose *)
(* open, value write or TTL write failed replies with an error and leaves  *)
(* the lock record as it was.                                              *)
C16_SetOrder ==
    [][SetStep =>
        LET early == last'.hit /\ last'.fault \in {"open", "set", "expire"}
        IN  /\ last'.reply = ReplyOK
                => /\ ~early
                   /\ store'[last'.key] = [val |-> last'.val, ttl |-> last'.arg.v]
                   /\ last'.fault # "lockopen" => ~LockPresent(store', last'.key)
            /\ early
                => /\ last'.reply.kind = "error"
                   /\ store'[LockName(last'.key)] = store[LockName(last'.key)]]_vars

\* a Set failed at the TTL write while the lock was held, and the lock is
\* still held
C16_Witness ==
    /\ last.op = "set" /\ last.key = K /\ last.fault = "expire" /\ last.hit
    /\ last.reply.kind = "error"
    /\ store[K] = [val |-> last.val, ttl |-> REDISMODULE_NO_EXPIRE]
    /\ LockPresent(store, K)

----------------------------------------------------------------------------
(* C17.  Original: in every state, also after failed commands, every       *)
(* record in the store (lock or entry) has an expiry.                      *)
C17_EverythingExpires ==
    \A n \in StoreNames : ~KeyTypeEmpty(store, n) => store[n].ttl # REDISMODULE_NO_EXPIRE

(* C17, amended.  In every state, also after failed commands, the lock     *)
(* record has an expiry, and so has the entry unless the last Set that     *)
(* wrote it failed at the TTL write.                                       *)
C17_LocksAndCompletedSetsExpire ==
    /\ LockPresent(store, K) => store[LockName(K)].ttl # REDISMODULE_NO_EXPIRE
    /\ (IsEntry(store, K) /\ written[K].ok) => HasExpiry(store, K)

\* a Get could not set the expiry of the lock it had just written, and the
\* lock record is not in the store
C17_Witness ==
    /\ last.op = "get" /\ last.key = K /\ last.fault = "lockexpire" /\ last.hit
    /\ ~LockPresent(store, K)
    /\ IsEntry(store, K) /\ HasExpiry(store, K)

----------------------------------------------------------------------------
(* C18.  From every reachable store, for an entry with remaining TTL t: a  *)
(* Get with grace period t treats it as in grace (told Regenerate, leaving *)
(* a lock, when the lock can be taken; given the stale value with the      *)
(* store unchanged otherwise), and a Get with grace period t - 1 is given  *)
(* the value as fresh with the store unchanged even when no lock is held.  *)
C18_GraceInclusive ==
    \A key \in {K, KS} :
        (IsEntry(store, key) /\ HasExpiry(store, key))
            => LET t == store[key].ttl
                   atBound == CacheGuardGetCommand(store, module_config, key, Num(t),
                                                   "none")
                   above == CacheGuardGetCommand(store, module_config, key, Num(t - 1),
                                                 "none")
                   canLock == /\ ~LockPresent(store, key)
                              /\ CreateLockKey(key) # NULL
                              /\ t <= module_config.max_lock_duration
               IN  /\ (t >= MIN_GRACE_PERIOD_MS /\ t <= MAX_GRACE_PERIOD_MS)
                        => IF canLock
                           THEN /\ atBound.reply = ReplyNull
                                /\ LockPresent(atBound.store, key)
                           ELSE /\ atBound.reply = ReplyString(store[key].val)
                                /\ atBound.store = store
                   /\ (t - 1 >= MIN_GRACE_PERIOD_MS /\ t - 1 <= MAX_GRACE_PERIOD_MS)
                        => /\ above.reply = ReplyString(store[key].val)
                           /\ above.store = store

\* a Get whose grace period equals the entry's remaining TTL was told
\* Regenerate and left the lock
C18_Witness ==
    /\ last.op = "get" /\ last.key = K /\ last.arg.num
    /\ IsEntry(store, K) /\ store[K].ttl = last.arg.v
    /\ last.reply = ReplyNull
    /\ LockPresent(store, K)

----------------------------------------------------------------------------
(* C19.  CreateLockKey yields a lock key exactly for the keys of 1 to      *)
(* 512 - 11 = 501 bytes (stated for the key of every command sent).        *)
C19_LockKeyUpTo501 ==
    last.op \in {"get", "set"}
        => (CreateLockKey(last.key) # NULL
                <=> (KeyLen(last.key) >= 1
                        /\ KeyLen(last.key) <= MAX_KEY_LENGTH - SuffixLen))

----------------------------------------------------------------------------
(* C20.  A Get or Set with an accepted key leaves the cache entry of every *)
(* other key as it was.                                                    *)
C20_NoSharedRecords ==
    [][((GetStep \/ SetStep) /\ AcceptedKey(last'))
        => \A other \in StoreNames \ {last'.key} :
               IsEntry(store, other) => store'[other] = store[other]]_vars

----------------------------------------------------------------------------
(* C21.  The lock key of a key is that key followed by the 11-byte suffix, *)
(* and two distinct keys whose lock keys can be derived have distinct lock *)
(* keys (the derivation is an operator, hence the same key always has the  *)
(* same lock key); in particular a lock record in the store is the lock of *)
(* one key only.                                                           *)
C21_DerivationInjective ==
    /\ \A k1 \in DerivationKeys, k2 \in DerivationKeys :
           (k1 # k2 /\ CreateLockKey(k1) # NULL /\ CreateLockKey(k2) # NULL)
               => CreateLockKey(k1) # CreateLockKey(k2)
    /\ \A k1 \in DerivationKeys :
           CreateLockKey(k1) # NULL
               => /\ CreateLockKey(k1)[1] = k1[1]
                  /\ KeyLen(CreateLockKey(k1)) = KeyLen(k1) + SuffixLen
    /\ \A k1 \in DerivationKeys :
           (LockPresent(store, K) /\ CreateLockKey(k1) = LockName(K)) => k1 = K

\* a Get has created the lock record of K under the derived name
C21_Witness ==
    /\ last.op = "get" /\ last.key = K /\ last.reply = ReplyNull
    /\ CreateLockKey(K) = KS
    /\ store[CreateLockKey(K)].val = LockValue
    /\ CreateLockKey(J) = JS /\ CreateLockKey(JS) # NULL

----------------------------------------------------------------------------
(* C22.  A Get on an in-grace entry whose lock cannot be acquired because  *)
(* the lock duration is above max_lock_duration, or because the lock key   *)
(* cannot be derived, creates no lock record and is not answered with the  *)
(* stale value.                                                            *)
C22_InvalidAcquireIsNotStale ==
    [][(GetStep /\ AcceptedKey(last') /\ AcceptedGrace(last')
            /\ InGrace(store, last'.key, last'.arg.v)
            /\ (LockExpireInvalid(module_config, last'.arg.v)
                    \/ CreateLockKey(last'.key) = NULL))
        => store' = store /\ last'.reply.kind # "string"]_vars

----------------------------------------------------------------------------
(* C23.  In every state max_lock_duration is within [1000, 300000] and     *)
(* log_level within [0, 3].  A config SET replies OK only for a known      *)
(* parameter and a number within the parameter's range, and then that      *)
(* parameter alone takes the value; otherwise it replies with an error and *)
(* the configuration is unchanged.  A config GET of a parameter replies    *)
(* with its current value, hence the last value SET with success, and      *)
(* changes nothing.                                                        *)
ConfigStep == last'.op = "config"

C23_ConfigWithinRange ==
    /\ [](/\ module_config.max_lock_duration >= MIN_MAX_LOCK_DURATION
          /\ module_config.max_lock_duration <= MAX_MAX_LOCK_DURATION
          /\ module_config.log_level >= MIN_LOG_LEVEL
          /\ module_config.log_level <= MAX_LOG_LEVEL)
    /\ [][(ConfigStep /\ last'.cmd \in {"SET", "set"})
            => LET l == last'
                   valid ==
                       /\ l.arg.num
                       /\ \/ l.val = "log_level" /\ l.arg.v \in 0..3
                          \/ l.val = "max_lock_duration" /\ l.arg.v \in 1000..300000
               IN  IF valid
                   THEN /\ l.reply = ReplyOK
                        /\ module_config' =
                               IF l.val = "log_level"
                               THEN [module_config EXCEPT !.log_level = l.arg.v]
                               ELSE [module_config EXCEPT !.max_lock_duration = l.arg.v]
                   ELSE l.reply.kind = "error" /\ module_config' = module_config]_vars
    /\ [][(ConfigStep /\ last'.cmd \in {"GET", "get"}
              /\ last'.val \in {"log_level", "max_lock_duration"})
            => /\ module_config' = module_config
               /\ last'.reply =
                      ReplyLongLong(IF last'.val = "log_level"
                                    THEN module_config.log_level
                                    ELSE module_config.max_lock_duration)]_vars

\* a GET returned a max_lock_duration that an earlier SET had stored, after
\* another SET had changed log_level
C23_Witness ==
    /\ last.op = "config" /\ last.cmd = "GET" /\ last.val = "max_lock_duration"
    /\ last.reply = ReplyLongLong(MAX_MAX_LOCK_DURATION)
    /\ module_config.max_lock_duration = MAX_MAX_LOCK_DURATION
    /\ module_config.log_level = MIN_LOG_LEVEL

----------------------------------------------------------------------------
(* C24.  cachemod: when the last command was a CACHE.GETSM that returned   *)
(* null, a CACHE.GETSM issued now, before any CACHE.SETSM, does not return *)
(* null.                                                                   *)
C24_OnlyFirstGetsNull ==
    (last.op = "getsm" /\ last.reply = ReplyNull)
        => CacheGetSMCommand(store, last.key).reply # ReplyNull

----------------------------------------------------------------------------
(* C25.  cachemod: from every reachable store, CACHE.GETSM on a key that   *)
(* exists with no expiry or a remaining TTL > 0 returns the stored value   *)
(* and leaves the store as it was; on a missing key or a key with          *)
(* remaining TTL <= 0 it returns null and the key does not exist           *)
(* afterwards.                                                             *)
C25_GetSMValueOrPurge ==
    LET r == CacheGetSMCommand(store, K)
    IN  IF /\ ~KeyTypeEmpty(store, K)
           /\ (store[K].ttl = REDISMODULE_NO_EXPIRE \/ store[K].ttl > 0)
        THEN r.reply = ReplyString(store[K].val) /\ r.store = store
        ELSE r.reply = ReplyNull /\ KeyTypeEmpty(r.store, K)

\* a CACHE.GETSM returned null and removed a key that a CACHE.SETSM had
\* written (no time has passed, so the key was there with remaining TTL 0)
C25_Witness ==
    /\ last.op = "getsm" /\ last.key = K /\ last.reply = ReplyNull
    /\ written[K].ok
    /\ ticks = 0
    /\ KeyTypeEmpty(store, K)

----------------------------------------------------------------------------
(* C26.  A Get that is given the value of an entry whose remaining TTL is  *)
(* positive and at most the grace period found the key's lock record in    *)
(* the store.                                                              *)
C26_StaleOnlyUnderLock ==
    [][(GetStep /\ AcceptedKey(last') /\ AcceptedGrace(last')
            /\ InGrace(store, last'.key, last'.arg.v)
            /\ last'.reply.kind = "string")
        => LockPresent(store, last'.key)]_vars

----------------------------------------------------------------------------
(* C27.  A caller that returned acquired holds a lock record that exists.  *)
(* Two callers hold acquired for the key at the same time only if the      *)
(* steps of their attempts interleaved: an attempt whose three steps ran   *)
(* without another attempt in between (a command executed atomically) is   *)
(* never acquired together with another.                                   *)
C27_AcquiredOnceUnlessInterleaved ==
    /\ \A c \in Callers : callers[c].st = "acquired" => LockPresent(store, K)
    /\ \A c \in Callers, d \in Callers :
           (c # d /\ callers[c].st = "acquired" /\ callers[d].st = "acquired")
               => callers[c].overlap /\ callers[d].overlap

\* two callers whose steps interleaved both returned acquired
C27_Witness ==
    \E c \in Callers, d \in Callers :
        /\ c # d
        /\ callers[c].st = "acquired" /\ callers[d].st = "acquired"
        /\ callers[c].overlap /\ callers[d].overlap
        /\ LockPresent(store, K)

----------------------------------------------------------------------------
----------------------------------------------------------------------------
(* C29.  A lock record created by Get never has less remaining TTL than    *)
(* the entry it guards; a Get is told Regenerate for an existing entry     *)
(* only when no lock record was there, and leaves one; and while the last  *)
(* command was such a Get and the entry still exists, the lock exists.     *)
(* No step other than a Set removes the lock while the entry exists.       *)
(* Hence between two Sets at most one Get is told Regenerate for an        *)
(* entry, whatever grace periods the callers use.                          *)
C29_LockOutlivesEntry ==
    /\ []((LockPresent(store, K) /\ store[LockName(K)].val = LockValue
              /\ IsEntry(store, K))
            => store[LockName(K)].ttl >= store[K].ttl)
    /\ []((last.op = "get" /\ last.key = K /\ last.reply = ReplyNull
              /\ IsEntry(store, K))
            => LockPresent(store, K))
    /\ [][(GetStep /\ last'.key = K /\ last'.reply = ReplyNull /\ IsEntry(store, K))
            => ~LockPresent(store, K) /\ LockPresent(store', K)]_vars
    /\ [][(~SetStep /\ LockPresent(store, K) /\ store[LockName(K)].val = LockValue
              /\ IsEntry(store, K) /\ IsEntry(store', K))
            => LockPresent(store', K)]_vars

\* a Get with the shorter grace period was given the stale value under the
\* lock that a Get with a longer grace period had created
C29_Witness ==
    /\ last.op = "get" /\ last.key = K /\ last.arg = Num(MIN_GRACE_PERIOD_MS)
    /\ InGrace(store, K, MIN_GRACE_PERIOD_MS)
    /\ last.reply = ReplyString(store[K].val)
    /\ LockPresent(store, K) /\ store[LockName(K)].val = LockValue
    /\ store[LockName(K)].ttl >= store[K].ttl

----------------------------------------------------------------------------
(* C30.  For every Get whose key and grace period pass the command's       *)
(* validation and which goes on to try the lock (the entry exists and is   *)
(* not fresh), the lock key can be derived and the grace period is a valid *)
(* lock duration under the configuration of that moment.                   *)
C30_ValidationAgrees ==
    [][(/\ GetStep /\ AcceptedKey(last') /\ AcceptedGrace(last')
        /\ ~KeyTypeEmpty(store, last'.key)
        /\ ~IsFresh(store[last'.key].ttl, last'.arg.v))
        => /\ CreateLockKey(last'.key) # NULL
           /\ ~LockExpireInvalid(module_config, last'.arg.v)]_vars

====
